---------------------------- MODULE Spec2Model ----------------------------
(***************************************************************************)
(* State-machine model of src/yuv.c (NvPipe RGB <-> NV12 converters).      *)
(*                                                                         *)
(* The C functions are modelled as operators over a machine record M       *)
(*   M.heap   converter objects (rgb2yuv_t / yuv2rgb_t) by address         *)
(*   M.strms  the CUDA driver's streams (0 is the default stream)          *)
(*   M.mods   the CUDA driver's modules                                    *)
(*   M.pc     "run", or "crashed" once the process has aborted             *)
(*   M.ev     the driver calls, allocator calls and log lines of the       *)
(*            handler that is running, in program order                    *)
(* A handler is one action: it threads M through the operators in the      *)
(* order of the C statements.  Outcomes the code does not decide (what the *)
(* driver returns, what pathconf returns, what a read of freed memory      *)
(* yields, whether a heap overflow is noticed by the allocator) are drawn  *)
(* from small sets by the action.  calloc is taken to succeed.             *)
(* assert() is modelled as compiled in (the file does not define NDEBUG):  *)
(* a failed assertion aborts the process.                                  *)
(***************************************************************************)
EXTENDS Integers, Sequences, FiniteSets, TLC

(* ------------------------------ bounds -------------------------------- *)
MaxCalls == 2       \* factory calls per run
MaxObjs == 2        \* heap addresses the allocator hands out for converters
MaxLaunch == 2      \* kernel launches accepted by the driver per run
MaxSmallDim == 3    \* small widths / heights tried by submit: 0..MaxSmallDim

(* --------------------------- program constants ------------------------- *)
NULL == 0
N_PREFIX == 4
FallbackPathMax == 4096
MaxDim == 8192
BlockX == 16
BlockY == 2
\* size_t arithmetic is modular.  The model keeps 30 bits (TLC integers
\* have 32); every length in the model is far below 2^30, so the
\* wrapped values act exactly like the 64-bit ones: larger than any string.
SizeMod == 2^30

JUNK == -1          \* an indeterminate value written by a failed driver call
CUDA_SUCCESS == 0
CUDA_ERROR == 1     \* any status other than CUDA_SUCCESS

Min(a, b) == IF a < b THEN a ELSE b
SizeSub(a, b) == (a - b) % SizeMod

(* ------------------------------ strings -------------------------------- *)
\* A C string is the sequence of its characters (the terminating NUL is
\* implicit).  fname is calloc'ed, strncpy pads with NULs and strncat
\* terminates, so the bytes after the terminator are always zero and the
\* content alone determines what the next call reads.
PTXFN == <<"c","o","n","v","e","r","t",".","p","t","x">>
NVPIPE_PREFIX == <<"/","o","p","t">>
pfix == << NVPIPE_PREFIX, <<".">>, <<"/","u","s","r">>,
           <<"/","u","s","r","/","l","o","c","a","l">> >>
post == <<"/","s","h","a","r","e","/","n","v","p","i","p","e","/">>
Slash == <<"/">>

\* strncpy(buf, src, n): copies min(n, strlen(src)) characters and pads with
\* NULs up to n bytes; with strlen(src) >= n no terminator is written and
\* the old bytes from offset n on stay part of the string.
strncpy(buf, src, n) ==
  IF n = 0 THEN buf
  ELSE IF Len(src) < n THEN src
  ELSE SubSeq(src, 1, n) \o SubSeq(buf, n + 1, Len(buf))

\* strncat(buf, src, n): appends min(n, strlen(src)) characters and a NUL.
strncat(buf, src, n) == buf \o SubSeq(src, 1, Min(n, Len(src)))

\* Bytes of the buffer a strncat touches, counted from its start (NUL included).
strncatEnd(buf, src, n) == Len(buf) + Min(n, Len(src)) + 1

(* ------------------------------ events --------------------------------- *)
\* One entry of M.ev: e names the call, x its integer argument or result,
\* p its path argument, g further arguments: <<module>> of a successful load,
\* <<gx, gy, gz, bx, by, bz, stream>> of a launch.
Ev(e, x) == [e |-> e, x |-> x, p |-> <<>>, g |-> <<>>]
EvP(e, x, p) == [e |-> e, x |-> x, p |-> p, g |-> <<>>]
EvG(e, x, g) == [e |-> e, x |-> x, p |-> <<>>, g |-> g]
Log(M, ev) == [M EXCEPT !.ev = Append(@, ev)]
Count(ev, name) == Cardinality({i \in 1..Len(ev) : ev[i].e = name})
Crash(M) == [M EXCEPT !.pc = "crashed"]

(* ------------------------------ path_max ------------------------------- *)
\* pc is what pathconf("/", _PC_PATH_MAX) did: its return value and errno.
path_max(pc) ==
  IF pc.rv = -1 /\ pc.errno # 0 THEN 0
  ELSE IF pc.rv = -1 THEN FallbackPathMax
  ELSE pc.rv


(* ------------------------------ sequencing ----------------------------- *)
\* Let(v, F) is F(v) with v evaluated once: "x = v; F(x)".  The handlers
\* below are sequences of such statements.
Let(v, F(_)) == CHOOSE y \in { F(x) : x \in {v} } : TRUE

(* --------------------------- the CUDA driver --------------------------- *)
\* Handles are never reused: the n-th stream (module) created is handle n.
NextStrm(M) == 1 + Cardinality({s \in DOMAIN M.strms : s # 0 /\ M.strms[s].st # "none"})
NextMod(M) == 1 + Cardinality({m \in DOMAIN M.mods : M.mods[m].st # "none"})

\* cuModuleLoad(&mod, fname): loads the file at fname when the environment
\* e has a module there (e.fs); a failed load leaves e.failWrite in *mod.
\* Result: the machine, the status and the value left in *mod.
cuModuleLoad(M, fname, e) ==
  IF fname \in e.fs
  THEN Let(NextMod(M), LAMBDA m :
         [M |-> Log([M EXCEPT !.mods[m] = [st |-> "loaded", unloads |-> 0]],
                    [EvP("cuModuleLoad", CUDA_SUCCESS, fname) EXCEPT !.g = <<m>>]),
          status |-> CUDA_SUCCESS, mod |-> m])
  ELSE [M |-> Log(M, EvP("cuModuleLoad", CUDA_ERROR, fname)),
        status |-> CUDA_ERROR, mod |-> e.failWrite]

\* cuModuleUnload(mod): unloads a loaded module; any other handle is an error.
cuModuleUnload(M, mod) ==
  IF mod \in DOMAIN M.mods /\ M.mods[mod].st = "loaded"
  THEN [M |-> Log([M EXCEPT !.mods[mod].st = "unloaded", !.mods[mod].unloads = @ + 1],
                  Ev("cuModuleUnload", mod)),
        status |-> CUDA_SUCCESS]
  ELSE [M |-> Log(IF mod \in DOMAIN M.mods /\ M.mods[mod].st = "unloaded"
                  THEN [M EXCEPT !.mods[mod].unloads = @ + 1] ELSE M,
                  Ev("cuModuleUnload", mod)),
        status |-> CUDA_ERROR]

\* cuStreamCreate(&strm, flags): ok is the driver's verdict; a failed call
\* leaves *strm as it was (zero, the default stream).
cuStreamCreate(M, ok) ==
  IF ok
  THEN Let(NextStrm(M), LAMBDA s :
         [M |-> Log([M EXCEPT !.strms[s] = [st |-> "live", q |-> <<>>, destroys |-> 0]],
                    Ev("cuStreamCreate", s)),
          status |-> CUDA_SUCCESS, strm |-> s])
  ELSE [M |-> Log(M, Ev("cuStreamCreate", NULL)), status |-> CUDA_ERROR, strm |-> NULL]

\* cuStreamDestroy(strm): destroys a live stream it created; the default
\* stream (0), a destroyed stream and junk are errors.  Work already queued
\* on a destroyed stream still runs.
cuStreamDestroy(M, strm) ==
  IF strm # 0 /\ strm \in DOMAIN M.strms /\ M.strms[strm].st = "live"
  THEN [M |-> Log([M EXCEPT !.strms[strm].st = "destroyed", !.strms[strm].destroys = @ + 1],
                  Ev("cuStreamDestroy", strm)),
        status |-> CUDA_SUCCESS]
  ELSE [M |-> Log(IF strm # 0 /\ strm \in DOMAIN M.strms /\ M.strms[strm].st = "destroyed"
                  THEN [M EXCEPT !.strms[strm].destroys = @ + 1] ELSE M,
                  Ev("cuStreamDestroy", strm)),
        status |-> CUDA_ERROR]

(* ----------------------------- load_module ----------------------------- *)
\* The environment of one load_module call:
\*   e.pc         what pathconf did            e.userpath  getenv("NVPIPE_PTX")
\*   e.fs         the paths that hold a loadable module
\*   e.failWrite  what a failed cuModuleLoad leaves in *mod
\*   e.heapCheck  whether free() notices a heap overflow and aborts

\* Lines 86-89: fname after the strncpy and the two strncat of pass i, and
\* whether one of them wrote past the pathlen+1 bytes of fname.
prefix_n(i, pathlen) == SizeSub(SizeSub(pathlen, Len(pfix[i])), Len(post))
prefix_path(fname, i, module, pathlen) ==
  strncat(strncat(strncpy(fname, pfix[i], pathlen), post, pathlen),
          module, prefix_n(i, pathlen))
prefix_over(fname, i, module, pathlen) ==
  \/ strncatEnd(strncpy(fname, pfix[i], pathlen), post, pathlen) > pathlen + 1
  \/ strncatEnd(strncat(strncpy(fname, pfix[i], pathlen), post, pathlen),
                module, prefix_n(i, pathlen)) > pathlen + 1

\* Lines 80-82, likewise.
override_n(up, pathlen) == SizeSub(SizeSub(pathlen, Len(up)), 1)
override_path(up, module, pathlen) ==
  strncat(strncat(strncpy(<<>>, up, pathlen), Slash, pathlen),
          module, override_n(up, pathlen))
override_over(up, module, pathlen) ==
  \/ strncatEnd(strncpy(<<>>, up, pathlen), Slash, pathlen) > pathlen + 1
  \/ strncatEnd(strncat(strncpy(<<>>, up, pathlen), Slash, pathlen),
                module, override_n(up, pathlen)) > pathlen + 1

\* The for loop from pass i on.  st is the locals: fname, rv.mod, ld.
RECURSIVE prefix_search(_, _, _, _, _, _)
prefix_search(M, module, e, pathlen, i, st) ==
  IF i > N_PREFIX THEN [M |-> M, st |-> st]
  ELSE
    Let(prefix_path(st.fname, i, module, pathlen), LAMBDA fname :
    Let(cuModuleLoad(IF prefix_over(st.fname, i, module, pathlen)
                     THEN Log(M, Ev("overflow", i)) ELSE M, fname, e), LAMBDA r :
      IF r.status = CUDA_SUCCESS
      THEN [M |-> r.M, st |-> [fname |-> fname, mod |-> r.mod, ld |-> r.status]]
      ELSE Let(Log(r.M, EvP("WARN", i, fname)), LAMBDA M1 :
             prefix_search(M1, module, e, pathlen, i + 1,
                           [fname |-> fname, mod |-> r.mod, ld |-> r.status]))))

\* The override branch (lines 80-83).
override_load(M, module, e, pathlen) ==
  Let(override_path(e.userpath.s, module, pathlen), LAMBDA fname :
  Let(cuModuleLoad(IF override_over(e.userpath.s, module, pathlen)
                   THEN Log(M, Ev("overflow", 0)) ELSE M, fname, e), LAMBDA r :
    [M |-> r.M, st |-> [fname |-> fname, mod |-> r.mod, ld |-> r.status]]))

\* load_result without line 101: a failed search returns rv.mod as the last
\* cuModuleLoad left it.
load_result_keeps_mod(r, e) ==
  IF Count(r.M.ev, "overflow") > 0 /\ e.heapCheck
  THEN [M |-> Crash(Log(r.M, Ev("abort", 0))), mod |-> NULL]
  ELSE IF r.st.ld # CUDA_SUCCESS
  THEN [M |-> Log(r.M, Ev("ERR", r.st.ld)), mod |-> r.st.mod]
  ELSE [M |-> r.M, mod |-> r.st.mod]

\* Lines 97-103: free(fname), the error report and the result [M, mod], mod
\* being rv.mod (rv.func stays zero).  A heap overflow of fname that the
\* allocator notices aborts the process inside free(fname).
load_result(r, e) ==
  IF Count(r.M.ev, "overflow") > 0 /\ e.heapCheck
  THEN [M |-> Crash(Log(r.M, Ev("abort", 0))), mod |-> NULL]
  ELSE IF r.st.ld # CUDA_SUCCESS
  THEN [M |-> Log(r.M, Ev("ERR", r.st.ld)), mod |-> NULL]
  ELSE [M |-> r.M, mod |-> r.st.mod]

\* load_module(module)
load_module(M, module, e) ==
  Let(path_max(e.pc), LAMBDA pathlen :
  Let(IF pathlen = 0 THEN Log(M, Ev("ERR", 0)) ELSE M, LAMBDA M0 :
  Let(IF e.userpath.set
      THEN override_load(M0, module, e, pathlen)
      ELSE prefix_search(M0, module, e, pathlen, 1,
                         [fname |-> <<>>, mod |-> NULL, ld |-> CUDA_ERROR]),
      LAMBDA r : load_result(r, e))))

(* ------------------------- converter objects --------------------------- *)
\* rgb2yuv_t and yuv2rgb_t: fut.strm, fqn.mod, fqn.func, components, and
\* kind for the function pointers fut.submit / fut.destroy ("rgb", "yuv",
\* or "none" when they are zero).  fut.sync is strm_sync in both.
\* st is the allocator's view of the address: "unalloc", "live" or "freed".
ZeroObj(st) ==
  [st |-> st, kind |-> "none", strm |-> NULL, mod |-> NULL, func |-> NULL, components |-> 0]

\* What a read through pointer a sees.  A freed object reads as the zeros
\* memset left, or (stale) as the contents it had when its teardown began:
\* the stores into an object that is freed next are dead and a compiler
\* may drop them.
Obj(M, a, stale) ==
  IF M.heap[a].st = "freed" /\ ~stale THEN ZeroObj("freed") ELSE M.heap[a]

Touch(M, a) == IF M.heap[a].st = "freed" THEN Log(M, Ev("uaf", a)) ELSE M

\* strm_destroy(f)
strm_destroy(M, f, stale) ==
  IF f = NULL THEN M
  ELSE Let(cuStreamDestroy(Touch(M, f), Obj(M, f, stale).strm), LAMBDA r :
         [(IF r.status # CUDA_SUCCESS THEN Log(r.M, Ev("WARN", r.status)) ELSE r.M)
            EXCEPT !.heap[f].strm = 0])

\* fqn_destroy(cnv); cnv is &conv->fqn, never NULL for a non-null conv.
fqn_destroy(M, conv, stale) ==
  Let(IF Obj(M, conv, stale).mod # NULL
      THEN Let(cuModuleUnload(Touch(M, conv), Obj(M, conv, stale).mod), LAMBDA r :
             IF r.status # CUDA_SUCCESS THEN Log(r.M, Ev("WARN", r.status)) ELSE r.M)
      ELSE Touch(M, conv),
      LAMBDA M2 : [M2 EXCEPT !.heap[conv].mod = NULL, !.heap[conv].func = NULL])

\* memset(conv, 0, sizeof) and free(conv).  before is the object as it was
\* when the teardown began.  Freeing a freed object aborts when the
\* allocator checks (heapCheck), and is silent otherwise.
memset_free(M, conv, before, heapCheck) ==
  IF before.st = "freed"
  THEN IF heapCheck THEN Crash(Log(Log(M, Ev("free", conv)), Ev("abort", 0)))
       ELSE [Log(M, Ev("free", conv)) EXCEPT !.heap[conv] = before]
  ELSE Log([M EXCEPT !.heap[conv] = [before EXCEPT !.st = "freed"]], Ev("free", conv))

\* rgb2yuv_destroy giving up when destroying the stream reported an error.
rgb2yuv_destroy_stop_on_error(M, r, stale, heapCheck) ==
  IF r = NULL THEN M
  ELSE Let(strm_destroy(M, r, stale), LAMBDA M1 :
         IF Count(M1.ev, "WARN") > Count(M.ev, "WARN") THEN M1
         ELSE Let(fqn_destroy(M1, r, stale), LAMBDA M2 :
                memset_free(M2, r, M.heap[r], heapCheck)))

\* rgb2yuv_destroy(r)
rgb2yuv_destroy(M, r, stale, heapCheck) ==
  IF r = NULL THEN M
  ELSE Let(strm_destroy(M, r, stale), LAMBDA M1 :
       Let(fqn_destroy(M1, r, stale), LAMBDA M2 :
         memset_free(M2, r, M.heap[r], heapCheck)))

\* yuv2rgb_destroy waiting for the stream before it destroys it.
yuv2rgb_destroy_sync(M, y, stale, heapCheck) ==
  IF y = NULL THEN Crash(Log(M, Ev("segv", 0)))
  ELSE Let(Log(M, Ev("cuStreamSynchronize", Obj(M, y, stale).strm)), LAMBDA M0 :
       Let(strm_destroy(M0, y, stale), LAMBDA M1 :
       Let(fqn_destroy(M1, y, stale), LAMBDA M2 :
         memset_free(M2, y, M.heap[y], heapCheck))))

\* yuv2rgb_destroy(y): no NULL check.  With y = NULL, &conv->fut is NULL
\* (strm_destroy returns) and &conv->fqn is a small non-null address whose
\* read faults.
yuv2rgb_destroy(M, y, stale, heapCheck) ==
  IF y = NULL THEN Crash(Log(M, Ev("segv", 0)))
  ELSE Let(strm_destroy(M, y, stale), LAMBDA M1 :
       Let(fqn_destroy(M1, y, stale), LAMBDA M2 :
         memset_free(M2, y, M.heap[y], heapCheck)))

\* strm_create()
strm_create(M, ok) ==
  Let(cuStreamCreate(M, ok), LAMBDA r :
    [M |-> IF r.status # CUDA_SUCCESS THEN Log(r.M, Ev("ERR", r.status)) ELSE r.M,
     strm |-> r.strm])

\* cuModuleGetFunction(&func, mod, name): ok is whether the module exports
\* the name.  The function handle of module m is written as m.
cuModuleGetFunction(M, mod, ok) ==
  IF ok THEN [M |-> Log(M, Ev("cuModuleGetFunction", CUDA_SUCCESS)),
              status |-> CUDA_SUCCESS, func |-> mod]
  ELSE [M |-> Log(M, Ev("cuModuleGetFunction", CUDA_ERROR)),
        status |-> CUDA_ERROR, func |-> NULL]

(* ------------------------------ factories ------------------------------ *)
\* The outcomes one factory call draws:
\*   o.streamOK  cuStreamCreate succeeds     o.bindOK  the entry point resolves
\*   o.e         the environment of load_module
\* a is the address calloc returns.  Result [M, ret, returned]; returned is
\* FALSE when the process aborted inside the call.
Ret(M, ret) == [M |-> M, ret |-> ret, returned |-> M.pc = "run"]

\* Lines 203-208 and 255-259: calloc, strm_create and the stores into *rv.
new_converter(M, a, kind, components, ok) ==
  Let(strm_create(Log([M EXCEPT !.heap[a] = ZeroObj("live")], Ev("calloc", a)), ok),
      LAMBDA sc : [sc.M EXCEPT !.heap[a].strm = sc.strm, !.heap[a].kind = kind,
                               !.heap[a].components = components])

\* rgb2yuv_create returning NULL on a failure without calling the destructor.
rgb2yuv_create_no_unwind(M, a, components, o) ==
  Let(new_converter(M, a, "rgb", components, o.streamOK), LAMBDA M1 :
  Let(load_module(M1, PTXFN, o.e), LAMBDA ld :
  Let([ld.M EXCEPT !.heap[a].mod = ld.mod], LAMBDA M2 :
    IF M2.pc = "crashed" THEN Ret(M2, NULL)
    ELSE IF ld.mod = NULL THEN Ret(M2, NULL)
    ELSE Let(cuModuleGetFunction(M2, ld.mod, o.bindOK), LAMBDA gf :
         Let([gf.M EXCEPT !.heap[a].func = gf.func], LAMBDA M3 :
           IF gf.status # CUDA_SUCCESS
           THEN Ret(Log(M3, Ev("ERR", gf.status)), NULL)
           ELSE Ret(M3, a))))))

\* rgb2yuv_create(module, fqnname, components)
rgb2yuv_create(M, a, components, o) ==
  Let(new_converter(M, a, "rgb", components, o.streamOK), LAMBDA M1 :
  Let(load_module(M1, PTXFN, o.e), LAMBDA ld :
  Let([ld.M EXCEPT !.heap[a].mod = ld.mod], LAMBDA M2 :
    IF M2.pc = "crashed" THEN Ret(M2, NULL)
    ELSE IF ld.mod = NULL
    THEN Let(rgb2yuv_destroy(M2, a, FALSE, FALSE), LAMBDA M5 : Ret(M5, NULL))
    ELSE Let(cuModuleGetFunction(M2, ld.mod, o.bindOK), LAMBDA gf :
         Let([gf.M EXCEPT !.heap[a].func = gf.func], LAMBDA M3 :
           IF gf.status # CUDA_SUCCESS
           THEN Let(Log(M3, Ev("ERR", gf.status)), LAMBDA M4 :
                Let(rgb2yuv_destroy(M4, a, FALSE, FALSE), LAMBDA M5 : Ret(M5, NULL)))
           ELSE Ret(M3, a))))))

\* yuv2rgb_create(module, fqnname)
yuv2rgb_create(M, a, o) ==
  Let(new_converter(M, a, "yuv", 0, o.streamOK), LAMBDA M1 :
  Let(load_module(M1, PTXFN, o.e), LAMBDA ld :
  Let([ld.M EXCEPT !.heap[a].mod = ld.mod], LAMBDA M2 :
    IF M2.pc = "crashed" THEN Ret(M2, NULL)
    ELSE IF ld.mod = NULL
    THEN Let(yuv2rgb_destroy(M2, a, FALSE, FALSE), LAMBDA M5 : Ret(M5, NULL))
    ELSE Let(cuModuleGetFunction(M2, ld.mod, o.bindOK), LAMBDA gf :
         Let([gf.M EXCEPT !.heap[a].func = gf.func], LAMBDA M3 :
           IF gf.status # CUDA_SUCCESS
           THEN Let(Log(M3, Ev("ERR", gf.status)), LAMBDA M4 :
                Let(cuModuleUnload(M4, ld.mod), LAMBDA un :
                Let(yuv2rgb_destroy(un.M, a, FALSE, FALSE), LAMBDA M5 : Ret(M5, a))))
           ELSE Ret(M3, a))))))

(* ------------------------------- submit -------------------------------- *)
\* Operations the driver has accepted so far (queued or completed).
RECURSIVE QueuedOn(_, _)
QueuedOn(strms, S) ==
  IF S = {} THEN 0
  ELSE Let(CHOOSE x \in S : TRUE, LAMBDA s : Len(strms[s].q) + QueuedOn(strms, S \ {s}))
NLaunch(M) == QueuedOn(M.strms, DOMAIN M.strms) + Cardinality(M.done)

\* cuLaunchKernel(func, gx, gy, gz, bx, by, bz, shmem, strm, args, NULL).
\* The driver rejects a function whose module is not loaded, a stream that
\* is not live and an empty grid; ok is its verdict otherwise.  An accepted
\* launch is queued on the stream.  c is the caller's handle (for the record).
cuLaunchKernel(M, func, gx, gy, strm, c, ok) ==
  IF /\ ok
     /\ func \in DOMAIN M.mods /\ M.mods[func].st = "loaded"
     /\ strm \in DOMAIN M.strms /\ M.strms[strm].st = "live"
     /\ gx > 0 /\ gy > 0
  THEN [M |-> Log([M EXCEPT !.strms[strm].q =
                               Append(@, [id |-> NLaunch(M) + 1, c |-> c, strm |-> strm])],
                  EvG("cuLaunchKernel", CUDA_SUCCESS, <<gx, gy, 1, BlockX, BlockY, 1, strm>>)),
        status |-> CUDA_SUCCESS]
  ELSE [M |-> Log(M, EvG("cuLaunchKernel", CUDA_ERROR, <<gx, gy, 1, BlockX, BlockY, 1, strm>>)),
        status |-> CUDA_ERROR]

\* assert(cond) failing at the given source line.
Abort(M, line) == [M |-> Crash(Log(M, Ev("assert", line))), ret |-> CUDA_ERROR, returned |-> FALSE]

\* rgb2yuv_submit without the assertion of line 182.
rgb2yuv_submit_any_height(M, conv, width, height, c, stale, ok) ==
  Let(Obj(M, conv, stale), LAMBDA cnv :
  Let(Touch(M, conv), LAMBDA M0 :
    IF cnv.mod = NULL THEN Abort(M0, 168)
    ELSE IF cnv.func = 0 THEN Abort(M0, 169)
    ELSE IF ~(width <= MaxDim) THEN Abort(M0, 172)
    ELSE IF ~(height <= MaxDim) THEN Abort(M0, 173)
    ELSE IF ~(cnv.components = 3 \/ cnv.components = 4) THEN Abort(M0, 175)
    ELSE Let(cuLaunchKernel(M0, cnv.func, (width \div 16) + 1, height \div 2,
                            cnv.strm, c, ok),
             LAMBDA exec : [M |-> exec.M, ret |-> exec.status, returned |-> TRUE])))

\* rgb2yuv_submit with the grid width rounded up before the increment.
rgb2yuv_submit_ceil(M, conv, width, height, c, stale, ok) ==
  Let(Obj(M, conv, stale), LAMBDA cnv :
  Let(Touch(M, conv), LAMBDA M0 :
    IF cnv.mod = NULL THEN Abort(M0, 168)
    ELSE IF cnv.func = 0 THEN Abort(M0, 169)
    ELSE IF ~(width <= MaxDim) THEN Abort(M0, 172)
    ELSE IF ~(height <= MaxDim) THEN Abort(M0, 173)
    ELSE IF ~(cnv.components = 3 \/ cnv.components = 4) THEN Abort(M0, 175)
    ELSE IF ~(height % 2 = 0) THEN Abort(M0, 182)
    ELSE Let(cuLaunchKernel(M0, cnv.func, ((width + 15) \div 16) + 1, height \div 2,
                            cnv.strm, c, ok),
             LAMBDA exec : [M |-> exec.M, ret |-> exec.status, returned |-> TRUE])))

\* rgb2yuv_submit(conv, rgb, width, height, nv12, pitch)
rgb2yuv_submit(M, conv, width, height, c, stale, ok) ==
  Let(Obj(M, conv, stale), LAMBDA cnv :
  Let(Touch(M, conv), LAMBDA M0 :
    IF cnv.mod = NULL THEN Abort(M0, 168)
    ELSE IF cnv.func = 0 THEN Abort(M0, 169)
    ELSE IF ~(width <= MaxDim) THEN Abort(M0, 172)
    ELSE IF ~(height <= MaxDim) THEN Abort(M0, 173)
    ELSE IF ~(cnv.components = 3 \/ cnv.components = 4) THEN Abort(M0, 175)
    ELSE IF ~(height % 2 = 0) THEN Abort(M0, 182)
    ELSE Let(cuLaunchKernel(M0, cnv.func, (width \div 16) + 1, height \div 2,
                            cnv.strm, c, ok),
             LAMBDA exec : [M |-> exec.M, ret |-> exec.status, returned |-> TRUE])))

\* yuv2rgb_submit with a grid of width/16 blocks in x.
yuv2rgb_submit_no_extra_block(M, y, width, height, c, stale, ok) ==
  Let(Obj(M, y, stale), LAMBDA conv :
  Let(Touch(M, y), LAMBDA M0 :
    IF conv.mod = NULL THEN Abort(M0, 232)
    ELSE IF ~(height % 2 = 0) THEN Abort(M0, 237)
    ELSE Let(cuLaunchKernel(M0, conv.func, width \div 16, height \div 2,
                            conv.strm, c, ok),
             LAMBDA exec : [M |-> exec.M, ret |-> exec.status, returned |-> TRUE])))

\* yuv2rgb_submit launching a second time when the first launch failed.
yuv2rgb_submit_retry(M, y, width, height, c, stale, ok) ==
  Let(Obj(M, y, stale), LAMBDA conv :
  Let(Touch(M, y), LAMBDA M0 :
    IF conv.mod = NULL THEN Abort(M0, 232)
    ELSE IF ~(height % 2 = 0) THEN Abort(M0, 237)
    ELSE Let(cuLaunchKernel(M0, conv.func, (width \div 16) + 1, height \div 2,
                            conv.strm, c, ok),
             LAMBDA exec :
               IF exec.status = CUDA_SUCCESS
               THEN [M |-> exec.M, ret |-> exec.status, returned |-> TRUE]
               ELSE Let(cuLaunchKernel(exec.M, conv.func, (width \div 16) + 1,
                                       height \div 2, conv.strm, c, ok),
                        LAMBDA again :
                          [M |-> again.M, ret |-> again.status, returned |-> TRUE]))))

\* yuv2rgb_submit(y, nv12, width, height, rgb, pitch)
yuv2rgb_submit(M, y, width, height, c, stale, ok) ==
  Let(Obj(M, y, stale), LAMBDA conv :
  Let(Touch(M, y), LAMBDA M0 :
    IF conv.mod = NULL THEN Abort(M0, 232)
    ELSE IF ~(height % 2 = 0) THEN Abort(M0, 237)
    ELSE Let(cuLaunchKernel(M0, conv.func, (width \div 16) + 1, height \div 2,
                            conv.strm, c, ok),
             LAMBDA exec : [M |-> exec.M, ret |-> exec.status, returned |-> TRUE])))

(* ----------------------------- synchronize ----------------------------- *)
\* cuStreamSynchronize(strm) returns success once every operation queued on
\* the stream has completed; until then the caller is blocked.  ok = FALSE
\* is the driver reporting an error instead.
SyncBlocked(M, strm) ==
  strm \in DOMAIN M.strms /\ M.strms[strm].st = "live" /\ M.strms[strm].q # <<>>

cuStreamSynchronize(M, strm, ok) ==
  IF ok /\ strm \in DOMAIN M.strms /\ M.strms[strm].st = "live" /\ M.strms[strm].q = <<>>
  THEN [M |-> Log(M, Ev("cuStreamSynchronize", strm)), status |-> CUDA_SUCCESS]
  ELSE [M |-> Log(M, Ev("cuStreamSynchronize", strm)), status |-> CUDA_ERROR]

\* strm_sync waiting on the default stream instead of the task's.
sync_stream_default(M, f, stale) == 0

\* The stream strm_sync waits on: fut->strm.
sync_stream(M, f, stale) == Obj(M, f, stale).strm

\* strm_sync(f)
strm_sync(M, f, stale, ok) ==
  Let(cuStreamSynchronize(Touch(M, f), sync_stream(M, f, stale), ok), LAMBDA sy :
    [M |-> IF sy.status # CUDA_SUCCESS THEN Log(sy.M, Ev("ERR", sy.status)) ELSE sy.M,
     ret |-> sy.status, returned |-> TRUE])

(* ------------------------------- state --------------------------------- *)
VARIABLES
  heap,    \* [Addrs -> object]: the converter objects
  strms,   \* [0..MaxCalls -> stream]: st, the queue q of pending launches, destroys
  mods,    \* [1..MaxCalls -> module]: st, and unloads, the cuModuleUnload calls on it
  pc,      \* "run" or "crashed"
  done,    \* the launches the device has completed
  held,    \* what the factories returned to the caller, in call order:
           \*   h the handle, kind the factory, released the release calls on it,
           \*   built whether the construction bound its entry point
  last     \* the call made last: its arguments, outcome and event list

vars == <<heap, strms, mods, pc, done, held, last>>

Addrs == 1..MaxObjs
Components == {3, 4}
Widths == (0..MaxSmallDim) \cup {16, 17, 1920, MaxDim, MaxDim + 1}
Heights == (0..MaxSmallDim) \cup {1080, 1081, MaxDim, MaxDim + 2}

\* pathconf either fails (-1 with errno set), has no limit (-1, errno 0) or
\* reports the limit.
PathConfOutcomes ==
  { [rv |-> -1, errno |-> 1], [rv |-> -1, errno |-> 0], [rv |-> FallbackPathMax, errno |-> 0] }
\* getenv("NVPIPE_PTX"): unset, or a directory.
UserPaths == { [set |-> FALSE, s |-> <<>>], [set |-> TRUE, s |-> <<"/","p">>] }

NoEnv == [streamOK |-> FALSE, pc |-> [rv |-> 0, errno |-> 0],
          userpath |-> [set |-> FALSE, s |-> <<>>], fs |-> {}, failWrite |-> NULL]
NoCall == [op |-> "none", c |-> 0, kind |-> "none", a |-> NULL, w |-> 0, h |-> 0,
           ret |-> 0, returned |-> FALSE, ev |-> <<>>, env |-> NoEnv]

Mach == [heap |-> heap, strms |-> strms, mods |-> mods, pc |-> pc, done |-> done, ev |-> <<>>]
Commit(M) ==
  /\ heap' = M.heap /\ strms' = M.strms /\ mods' = M.mods /\ pc' = M.pc /\ done' = M.done

InitHeap == [a \in Addrs |-> ZeroObj("unalloc")]
InitStrms == [s \in 0..MaxCalls |->
                [st |-> IF s = 0 THEN "live" ELSE "none", q |-> <<>>, destroys |-> 0]]
InitMods == [m \in 1..MaxCalls |-> [st |-> "none", unloads |-> 0]]
InitMach == [heap |-> InitHeap, strms |-> InitStrms, mods |-> InitMods, pc |-> "run",
             done |-> {}, ev |-> <<>>]

Init ==
  /\ heap = InitHeap
  /\ strms = InitStrms
  /\ mods = InitMods
  /\ pc = "run"
  /\ done = {}
  /\ held = <<>>
  /\ last = NoCall

\* The places a module file may be installed at: the four prefix candidates,
\* the override directory, and the bare file name in the current directory.
Files ==
  { pfix[i] \o post \o PTXFN : i \in 1..N_PREFIX }
    \cup { up.s \o Slash \o PTXFN : up \in {u \in UserPaths : u.set} }
    \cup { PTXFN }

\* load_module in environment e, from the initial machine.
Probe(e) == load_module(InitMach, PTXFN, e)
TriedPaths(ev) == { ev[i].p : i \in {j \in 1..Len(ev) : ev[j].e = "cuModuleLoad"} }

\* Every outcome a factory call can meet.  Files at paths the call never
\* tries are left out, and an outcome the call never consults (the entry
\* point of a module that did not load, the junk of a load that succeeded,
\* the allocator's check of a heap that was not overrun) has one value.
AllEnvs ==
  [pc : PathConfOutcomes, userpath : UserPaths, fs : SUBSET Files,
   failWrite : {NULL, JUNK}, heapCheck : BOOLEAN]
Envs ==
  { e \in AllEnvs :
      \E all \in {Probe([e EXCEPT !.fs = {}, !.failWrite = NULL, !.heapCheck = FALSE])},
         r \in {Probe([e EXCEPT !.failWrite = NULL, !.heapCheck = FALSE])} :
        /\ e.fs \subseteq TriedPaths(all.M.ev)
        /\ (r.mod # NULL => e.failWrite = NULL)
        /\ (Count(r.M.ev, "overflow") = 0 => ~e.heapCheck) }
Oracles ==
  { o \in [streamOK : BOOLEAN, bindOK : BOOLEAN, e : Envs] :
      Probe(o.e).mod = NULL => o.bindOK }

CallEnv(o) ==
  [streamOK |-> o.streamOK, pc |-> o.e.pc, userpath |-> o.e.userpath, fs |-> o.e.fs,
   failWrite |-> o.e.failWrite]

(* ------------------------------- actions ------------------------------- *)
\* What the event list of a factory call says about it.
Loaded(ev) == \E i \in 1..Len(ev) : ev[i].e = "cuModuleLoad" /\ ev[i].x = CUDA_SUCCESS
Bound(ev) == \E i \in 1..Len(ev) : ev[i].e = "cuModuleGetFunction" /\ ev[i].x = CUDA_SUCCESS
BindFailed(ev) == \E i \in 1..Len(ev) : ev[i].e = "cuModuleGetFunction" /\ ev[i].x # CUDA_SUCCESS

\* calloc returns an address that holds no live object: a freed one, or the
\* lowest one never handed out.
CanAlloc(a) ==
  /\ heap[a].st # "live"
  /\ \A b \in Addrs : b < a => heap[b].st # "unalloc"

\* The caller is between calls: the call made last has returned and its
\* record has been taken.
Idle == pc = "run" /\ last.op = "none"

\* rgb2nv12(components)
Rgb2nv12 ==
  /\ Idle /\ Len(held) < MaxCalls
  /\ \E a \in Addrs, components \in Components, o \in Oracles :
       /\ CanAlloc(a)
       /\ \E r \in {rgb2yuv_create(Mach, a, components, o)} :
            /\ Commit(r.M)
            /\ held' = IF r.returned
                       THEN Append(held, [h |-> r.ret, kind |-> "rgb", released |-> 0,
                                          built |-> Bound(r.M.ev)])
                       ELSE held
            /\ last' = [NoCall EXCEPT !.op = "create", !.c = Len(held) + 1, !.kind = "rgb",
                                      !.a = a, !.ret = r.ret, !.returned = r.returned,
                                      !.ev = r.M.ev, !.env = CallEnv(o)]

\* nv122rgb()
Nv122rgb ==
  /\ Idle /\ Len(held) < MaxCalls
  /\ \E a \in Addrs, o \in Oracles :
       /\ CanAlloc(a)
       /\ \E r \in {yuv2rgb_create(Mach, a, o)} :
            /\ Commit(r.M)
            /\ held' = IF r.returned
                       THEN Append(held, [h |-> r.ret, kind |-> "yuv", released |-> 0,
                                          built |-> Bound(r.M.ev)])
                       ELSE held
            /\ last' = [NoCall EXCEPT !.op = "create", !.c = Len(held) + 1, !.kind = "yuv",
                                      !.a = a, !.ret = r.ret, !.returned = r.returned,
                                      !.ev = r.M.ev, !.env = CallEnv(o)]

\* A call through a function pointer of a zeroed object jumps to address 0.
CallNull(M) == [M |-> Crash(Log(M, Ev("segv", 0))), ret |-> CUDA_ERROR, returned |-> FALSE]

\* What reads of the object at h may yield: only a freed object has a choice.
Views(h) == IF heap[h].st = "freed" THEN BOOLEAN ELSE {FALSE}

\* task->submit(task, src, width, height, dst, pitch) on a handle the caller
\* holds and has not released.  The function called is the one the object's
\* submit pointer names.
Submit(c) ==
  /\ Idle /\ held[c].h # NULL /\ held[c].released = 0
  /\ NLaunch(Mach) < MaxLaunch
  /\ \E width \in Widths, height \in Heights, stale \in Views(held[c].h), ok \in BOOLEAN :
     \E h \in {held[c].h} :
     \E k \in {Obj(Mach, h, stale).kind} :
     \E r \in { IF k = "rgb" THEN rgb2yuv_submit(Mach, h, width, height, c, stale, ok)
                ELSE IF k = "yuv" THEN yuv2rgb_submit(Mach, h, width, height, c, stale, ok)
                ELSE CallNull(Touch(Mach, h)) } :
       /\ Commit(r.M)
       /\ held' = held
       /\ last' = [NoCall EXCEPT !.op = "submit", !.c = c, !.kind = k, !.a = h,
                                 !.w = width, !.h = height, !.ret = r.ret,
                                 !.returned = r.returned, !.ev = r.M.ev]

\* task->sync(task): returns when cuStreamSynchronize does.
Synchronize(c) ==
  /\ Idle /\ held[c].h # NULL /\ held[c].released = 0
  /\ \E stale \in Views(held[c].h), ok \in BOOLEAN :
     \E h \in {held[c].h} :
     \E k \in {Obj(Mach, h, stale).kind} :
       /\ ~(k # "none" /\ ok /\ SyncBlocked(Mach, sync_stream(Mach, h, stale)))
       /\ \E r \in { IF k = "none" THEN CallNull(Touch(Mach, h))
                     ELSE strm_sync(Mach, h, stale, ok) } :
            /\ Commit(r.M)
            /\ held' = held
            /\ last' = [NoCall EXCEPT !.op = "sync", !.c = c, !.kind = k, !.a = h,
                                      !.ret = r.ret, !.returned = r.returned, !.ev = r.M.ev]

\* task->destroy(task); op is the name the call is recorded under.
Destroy(c, op) ==
  \E stale \in Views(held[c].h), heapCheck \in Views(held[c].h) :
  \E h \in {held[c].h} :
  \E k \in {Obj(Mach, h, stale).kind} :
  \E M1 \in { IF k = "rgb" THEN rgb2yuv_destroy(Mach, h, stale, heapCheck)
              ELSE IF k = "yuv" THEN yuv2rgb_destroy(Mach, h, stale, heapCheck)
              ELSE CallNull(Touch(Mach, h)).M } :
    /\ Commit(M1)
    /\ held' = [held EXCEPT ![c].released = @ + 1]
    /\ last' = [NoCall EXCEPT !.op = op, !.c = c, !.kind = k, !.a = h,
                              !.returned = (M1.pc = "run"), !.ev = M1.ev]

\* release of a handle the caller holds and has not released yet
Release(c) ==
  /\ Idle /\ held[c].h # NULL /\ held[c].released = 0
  /\ Destroy(c, "release")

\* a second release of a handle the caller has released before
ReleaseAgain(c) ==
  /\ Idle /\ held[c].h # NULL /\ held[c].released = 1
  /\ Destroy(c, "release again")

\* The device completes the operation at the head of a stream.
DeviceStep(s) ==
  /\ Idle /\ strms[s].q # <<>>
  /\ strms' = [strms EXCEPT ![s].q = Tail(@)]
  /\ done' = done \cup {Head(strms[s].q)}
  /\ UNCHANGED <<heap, mods, pc, held, last>>

\* The caller takes the result of the call that returned and goes on.
Return ==
  /\ pc = "run" /\ last.op # "none"
  /\ last' = NoCall
  /\ UNCHANGED <<heap, strms, mods, pc, done, held>>

Next ==
  \/ Rgb2nv12
  \/ Nv122rgb
  \/ \E c \in 1..Len(held) : Submit(c)
  \/ \E c \in 1..Len(held) : Synchronize(c)
  \/ \E c \in 1..Len(held) : Release(c)
  \/ \E s \in DOMAIN strms : DeviceStep(s)
  \/ Return

Spec == Init /\ [][Next]_vars

\* The same program with a caller that may also release a handle twice.
NextAnyCaller ==
  \/ Rgb2nv12
  \/ Nv122rgb
  \/ \E c \in 1..Len(held) : Submit(c)
  \/ \E c \in 1..Len(held) : Synchronize(c)
  \/ \E c \in 1..Len(held) : Release(c)
  \/ \E c \in 1..Len(held) : ReleaseAgain(c)
  \/ \E s \in DOMAIN strms : DeviceStep(s)
  \/ Return

SpecAnyCaller == Init /\ [][NextAnyCaller]_vars


(* =============================== claims ================================ *)
\* The call recorded in `last` is a factory call that returned to its caller.
Created == last.op = "create" /\ last.returned
\* The paths of its cuModuleLoad calls, in order.
LoadEvents(ev) == SelectSeq(ev, LAMBDA x : x.e = "cuModuleLoad")
\* A stream cuStreamCreate made and nobody destroyed; a module that is loaded.
LiveStream(s) == s # 0 /\ s \in DOMAIN strms /\ strms[s].st = "live"
LoadedModule(m) == m \in DOMAIN mods /\ mods[m].st = "loaded"

\* C1: whenever the module loads but resolving the entry point fails, the
\* factory (rgb2nv12 and nv122rgb alike) returns a null handle.
C1_BindingFailureReturnsNull ==
  (Created /\ Loaded(last.ev) /\ BindFailed(last.ev)) => last.ret = NULL

\* C2: while the process runs, every module a successful load produced is
\* passed to cuModuleUnload at most once, and exactly once as soon as no
\* live converter owns it.
C2_ModuleUnloadedExactlyOnce ==
  \A m \in DOMAIN mods :
    (pc = "run" /\ mods[m].st # "none") =>
      /\ mods[m].unloads <= 1
      /\ (\A a \in Addrs : ~(heap[a].st = "live" /\ heap[a].mod = m)) => mods[m].unloads = 1

\* C3: every non-null handle a factory returns is a live converter with a
\* created stream, a loaded module and a resolved function handle.
C3_NoPartialHandle ==
  (Created /\ last.ret # NULL) =>
    /\ heap[last.ret].st = "live"
    /\ LiveStream(heap[last.ret].strm)
    /\ LoadedModule(heap[last.ret].mod)
    /\ heap[last.ret].func # NULL

\* C4: a second release of a handle, and the release of a handle whose
\* construction failed, touches no freed object, destroys no stream, unloads
\* no module, frees nothing and does not crash.
C4_TeardownIdempotent ==
  (\/ last.op = "release again"
   \/ (last.op = "release" /\ ~held[last.c].built)) =>
    /\ last.returned
    /\ Count(last.ev, "uaf") = 0
    /\ Count(last.ev, "cuStreamDestroy") = 0
    /\ Count(last.ev, "cuModuleUnload") = 0
    /\ Count(last.ev, "free") = 0

\* C5: when no candidate loads (the single override candidate, or all four
\* prefix candidates), a factory that returns returns a null handle, and the
\* module handle load_module reported (stored in the converter before its
\* teardown) is null whatever the failed loads wrote.
C5_ResolutionFailureReturnsNull ==
  (Created /\ ~Loaded(last.ev)) => (last.ret = NULL /\ heap[last.a].mod = NULL)

C5_Witness ==
  /\ Created /\ ~Loaded(last.ev) /\ last.kind = "yuv"
  /\ Len(LoadEvents(last.ev)) = N_PREFIX /\ last.env.failWrite = JUNK
  /\ last.ret = NULL /\ heap[last.a].st = "freed"

\* C6: with NVPIPE_PTX set, a factory call makes exactly one module-load
\* attempt, on the path <override>/<filename>.
C6_OverrideSingleAttempt ==
  (last.op = "create" /\ last.env.userpath.set) =>
    /\ Len(LoadEvents(last.ev)) = 1
    /\ LoadEvents(last.ev)[1].p = last.env.userpath.s \o Slash \o PTXFN

\* C7: with no override, the load attempts go through the candidates
\* <prefix>/share/nvpipe/<filename> in the order of pfix, each tried only
\* after all earlier ones failed, the search stops at the first candidate
\* that loads, and the module returned is the one loaded from it.
Candidate(i) == pfix[i] \o post \o PTXFN
FirstLoadable(fs) ==
  IF \E i \in 1..N_PREFIX : Candidate(i) \in fs
  THEN CHOOSE i \in 1..N_PREFIX :
         Candidate(i) \in fs /\ \A j \in 1..(i - 1) : Candidate(j) \notin fs
  ELSE 0
C7_PrefixSearchOrder ==
  (last.op = "create" /\ ~last.env.userpath.set) =>
    \E L \in {LoadEvents(last.ev)}, first \in {FirstLoadable(last.env.fs)} :
      /\ Len(L) = (IF first = 0 THEN N_PREFIX ELSE first)
      /\ \A i \in 1..Len(L) : L[i].p = Candidate(i)
      /\ \A i \in 1..Len(L) : (L[i].x = CUDA_SUCCESS) <=> (i = first)
      /\ (first # 0 /\ last.returned /\ last.ret # NULL) =>
            heap[last.ret].mod = L[first].g[1]

\* C8: a submit with an odd height, of either converter, makes no
\* cuLaunchKernel call.
C8_OddHeightNeverLaunches ==
  (last.op = "submit" /\ last.h % 2 = 1) => Count(last.ev, "cuLaunchKernel") = 0

C8_Witness ==
  /\ last.op = "submit" /\ last.kind = "rgb" /\ last.h = 1081 /\ last.w = 1920
  /\ \E i \in 1..Len(last.ev) : last.ev[i].e = "assert" /\ last.ev[i].x = 182
  /\ pc = "crashed"

\* C9 (as claimed): every launch of a submit with width in 1..8192 and even
\* height in 2..8192 has block (16, 2, 1) and grid (ceil(width/16) + 1,
\* height/2, 1).
InRange == last.op = "submit" /\ last.w \in 1..MaxDim /\ last.h \in 2..MaxDim /\ last.h % 2 = 0
Launches(ev) == SelectSeq(ev, LAMBDA x : x.e = "cuLaunchKernel")
C9_GridCeil ==
  InRange =>
    \A i \in 1..Len(Launches(last.ev)) :
      SubSeq(Launches(last.ev)[i].g, 1, 6) =
        <<((last.w + 15) \div 16) + 1, last.h \div 2, 1, 16, 2, 1>>

\* C9 (amended): the grid is (floor(width/16) + 1, height/2, 1), which is
\* ceil(width/16) + 1 only for widths divisible by 16 (1920 x 1080 gives
\* (121, 540, 1)); the block is (16, 2, 1).
C9_GridFloor ==
  InRange =>
    \A i \in 1..Len(Launches(last.ev)) :
      SubSeq(Launches(last.ev)[i].g, 1, 6) =
        <<(last.w \div 16) + 1, last.h \div 2, 1, 16, 2, 1>>

C9_Witness ==
  /\ InRange /\ last.w = 17 /\ last.h = 1080 /\ last.ret = CUDA_SUCCESS
  /\ Len(Launches(last.ev)) = 1
  /\ SubSeq(Launches(last.ev)[1].g, 1, 6) = <<2, 540, 1, 16, 2, 1>>

\* C10: when synchronize returns success, no operation submitted through
\* that task is still queued and the task's stream is drained; and the
\* synchronize call changes no converter, stream queue, module or completed
\* operation.
C10_Drained ==
  (last.op = "sync" /\ last.returned /\ last.ret = CUDA_SUCCESS) =>
    /\ \A s \in DOMAIN strms : \A i \in 1..Len(strms[s].q) : strms[s].q[i].c # last.c
    /\ heap[last.a].st = "live" => strms[heap[last.a].strm].q = <<>>
C10_Frame ==
  (last.op = "none" /\ last'.op = "sync") =>
    (heap' = heap /\ strms' = strms /\ mods' = mods /\ done' = done /\ held' = held)
C10_SynchronizeIsPureWait == []C10_Drained /\ [][C10_Frame]_vars

C10_Witness ==
  /\ last.op = "sync" /\ last.returned /\ last.ret = CUDA_SUCCESS
  /\ \E op \in done : op.c = last.c /\ op.strm = heap[last.a].strm /\ op.strm # 0

\* C11: a submit that passes its assertions makes exactly one
\* cuLaunchKernel call, on the stream stored in the converter, and returns
\* that call's status (a failed launch is not retried); and a submit call,
\* whatever its outcome, changes no converter object, no module and no
\* stream's liveness.
C11_OneLaunch ==
  (last.op = "submit" /\ last.returned) =>
    /\ Len(Launches(last.ev)) = 1
    /\ Launches(last.ev)[1].g[7] = heap[last.a].strm
    /\ last.ret = Launches(last.ev)[1].x
C11_Frame ==
  (last.op = "none" /\ last'.op = "submit") =>
    /\ heap' = heap /\ mods' = mods /\ held' = held
    /\ \A s \in DOMAIN strms : strms'[s].st = strms[s].st
C11_SubmitLaunchesOnce == []C11_OneLaunch /\ [][C11_Frame]_vars

C11_Witness ==
  /\ last.op = "submit" /\ last.returned /\ last.ret = CUDA_ERROR /\ last.kind = "yuv"
  /\ Len(Launches(last.ev)) = 1
  /\ heap[last.a].st = "live" /\ LiveStream(heap[last.a].strm)
  /\ LoadedModule(heap[last.a].mod)

\* C12: in a factory call that returns, every failed cuModuleLoad (prefix
\* candidate or override candidate) is followed by exactly one warning
\* naming its path, a successful one by none, and a search in which nothing
\* loaded logs exactly one error for the load, a successful search none.
LoadWarnings(ev, path) == Cardinality({i \in 1..Len(ev) : ev[i].e = "WARN" /\ ev[i].p = path})
LoadErrors(ev) ==
  Cardinality({i \in 2..Len(ev) :
                 /\ ev[i].e = "ERR"
                 /\ \/ ev[i - 1].e = "cuModuleLoad"
                    \/ (ev[i - 1].e = "WARN" /\ ev[i - 1].p # <<>>)})
C12_FailedLoadsLogged ==
  (last.op = "create" /\ last.returned) =>
    /\ \A i \in 1..Len(LoadEvents(last.ev)) :
         LoadWarnings(last.ev, LoadEvents(last.ev)[i].p) =
           (IF LoadEvents(last.ev)[i].x = CUDA_SUCCESS THEN 0 ELSE 1)
    /\ LoadErrors(last.ev) = (IF Loaded(last.ev) THEN 0 ELSE 1)

\* C13: the path length load_module uses is never 0, and is 4096 whenever
\* pathconf returned -1, with or without errno set.
C13_PathLenFallback ==
  last.op = "create" =>
    /\ path_max(last.env.pc) # 0
    /\ last.env.pc.rv = -1 => path_max(last.env.pc) = FallbackPathMax
    /\ \A i \in 1..Len(last.ev) : ~(last.ev[i].e = "ERR" /\ last.ev[i].x = 0)

\* C14: a factory call that returns from a failed construction (no module
\* loaded, or the entry point not bound) leaves the set of live streams and
\* the set of loaded modules as they were before the call.
LiveStreams(ss) == {s \in DOMAIN ss : ss[s].st = "live"}
LoadedModules(ms) == {m \in DOMAIN ms : ms[m].st = "loaded"}
C14_Frame ==
  (/\ last.op = "none" /\ last'.op = "create" /\ last'.returned
   /\ (~Loaded(last'.ev) \/ BindFailed(last'.ev))) =>
    /\ LiveStreams(strms') = LiveStreams(strms)
    /\ LoadedModules(mods') = LoadedModules(mods)
C14_FailedConstructionLeaksNothing == [][C14_Frame]_vars

C14_Witness ==
  /\ last.op = "create" /\ last.returned /\ last.kind = "rgb" /\ BindFailed(last.ev)
  /\ \E i, j, k \in 1..Len(last.ev) :
       /\ last.ev[i].e = "cuStreamCreate" /\ last.ev[i].x # NULL
       /\ last.ev[j].e = "cuStreamDestroy" /\ last.ev[j].x = last.ev[i].x
       /\ strms[last.ev[i].x].st = "destroyed"
       /\ last.ev[k].e = "cuModuleUnload" /\ mods[last.ev[k].x].st = "unloaded"

\* C15: a submit of either converter with width > 8192 or height > 8192
\* enqueues no kernel launch.
C15_SizeLimitEnforced ==
  (last.op = "submit" /\ (last.w > MaxDim \/ last.h > MaxDim)) =>
    \A i \in 1..Len(Launches(last.ev)) : Launches(last.ev)[i].x # CUDA_SUCCESS

\* C16: a release of a converter that is live when the call begins returns,
\* and calls cuStreamDestroy, then cuModuleUnload, then free, once each and
\* in that order, also when cuStreamDestroy or cuModuleUnload reported an
\* error; afterwards the object is freed and its module is not loaded.
TeardownSteps(ev) ==
  SelectSeq(ev, LAMBDA x : x.e \in {"cuStreamDestroy", "cuModuleUnload", "free"})
Outstanding(c) ==
  /\ c \in 1..Len(held) /\ held[c].h # NULL /\ held[c].released = 0
  /\ heap[held[c].h].st = "live"
  /\ LiveStream(heap[held[c].h].strm) /\ strms[heap[held[c].h].strm].q # <<>>
C17_NoSync == last.op = "release" => Count(last.ev, "cuStreamSynchronize") = 0
C17_CanRelease == \A c \in 1..Len(held) : (Idle /\ Outstanding(c)) => ENABLED Release(c)
C17_Frame ==
  (last.op = "none" /\ last'.op = "release") =>
    /\ done' = done
    /\ \A s \in DOMAIN strms : strms'[s].q = strms[s].q
C17_ReleaseDoesNotSynchronize == [](C17_NoSync /\ C17_CanRelease) /\ [][C17_Frame]_vars

C17_Witness ==
  /\ last.op = "release" /\ last.returned /\ last.kind = "yuv"
  /\ Count(last.ev, "uaf") = 0
  /\ \E s \in DOMAIN strms :
       /\ strms[s].st = "destroyed" /\ strms[s].q # <<>>
       /\ strms[s].q[1].c = last.c
       /\ mods[heap[last.a].mod].st = "unloaded"

\* C18: for width in 1..8192 and even height in 2..8192, every launch has
\* grid.x * 16 >= width, grid.y * 2 = height, and grid.x is the minimum
\* covering block count ceil(width/16) or one more.
CeilDiv16(w) == (w + 15) \div 16
C18_GridCoversImage ==
  InRange =>
    \A i \in 1..Len(Launches(last.ev)) :
      /\ Launches(last.ev)[i].g[1] * BlockX >= last.w
      /\ Launches(last.ev)[i].g[2] * BlockY = last.h
      /\ Launches(last.ev)[i].g[1] - CeilDiv16(last.w) \in {0, 1}

C18_Witness ==
  /\ InRange /\ last.w = 17 /\ last.kind = "yuv" /\ last.ret = CUDA_SUCCESS
  /\ Len(Launches(last.ev)) = 1
  /\ Launches(last.ev)[1].g[1] = 2 /\ Launches(last.ev)[1].g[1] = CeilDiv16(last.w)

\* C19: every live converter's stream is a stream created at its
\* construction that no other live converter uses, every launch of a submit
\* on a live converter targets that stream, and the operations queued on a
\* stream are in submission order.
C19_OwnStreamFifo ==
  /\ \A a \in Addrs : heap[a].st = "live" => LiveStream(heap[a].strm)
  /\ \A a, b \in Addrs :
       (a # b /\ heap[a].st = "live" /\ heap[b].st = "live") => heap[a].strm # heap[b].strm
  /\ (last.op = "submit" /\ heap[last.a].st = "live") =>
       \A i \in 1..Len(Launches(last.ev)) : Launches(last.ev)[i].g[7] = heap[last.a].strm
  /\ \A s \in DOMAIN strms :
       \A i, j \in 1..Len(strms[s].q) : i < j => strms[s].q[i].id < strms[s].q[j].id

\* C20: in every factory call, load_module writes no byte past the
\* pathlen+1 bytes of its path buffer, and the append lengths
\* pathlen-strlen(userpath)-1 and pathlen-strlen(prefix)-strlen(suffix) of
\* the appends it makes are not negative before the conversion to size_t.
AppendLengths(env, ev) ==
  IF env.userpath.set
  THEN { path_max(env.pc) - Len(env.userpath.s) - 1 }
  ELSE { path_max(env.pc) - Len(pfix[i]) - Len(post) : i \in 1..Len(LoadEvents(ev)) }
C20_PathStaysInBuffer ==
  last.op = "create" =>
    /\ Count(last.ev, "overflow") = 0
    /\ \A n \in AppendLengths(last.env, last.ev) : n >= 0

=============================================================================
